---- MODULE Spec2Model ----
(***************************************************************************)
(* Google Trends -> Pine Seeds pipeline: the fetcher/writer of             *)
(* scripts/fetch_trends.py and the validator of scripts/validate_data.py.  *)
(*                                                                         *)
(* A file is what csv.reader yields for it: a sequence of rows, a row a    *)
(* sequence of fields, a field a sequence of one-character strings.  A     *)
(* blank line is the empty row.  Sample values are floats with at most two *)
(* decimals, held as an integer count of hundredths (10001 is 100.01).     *)
(* Timestamps and the clock are integers, in seconds.                      *)
(***************************************************************************)
EXTENDS Integers, Sequences, FiniteSets, TLC

VARIABLES
    dirExists,   \* the directory data/ exists
    fs,          \* [FileNames -> FileState]: the entries of data/
    now,         \* the clock (datetime.now()), seconds
    input,       \* the sample list handed to save_to_csv
    saved,       \* the last save_to_csv call: its effect and return value
    sres,        \* the last validate_csv_structure call and what it returned
    fres,        \* the last validate_data_freshness call and what it returned
    fetcher,     \* the GoogleTrendsFetcher object and the position of fetch_all_trends
    validator    \* the run of validate_data.main: validate_all_files and the exit

vars == <<dirExists, fs, now, input, saved, sres, fres, fetcher, validator>>

-----------------------------------------------------------------------------
(* Bounds of the model *)

\* The row cap.  The code's cap is 6000 (fetch_trends.py:107,
\* validate_data.py:19); both places are parametric in it, and the model
\* scales it down so that inputs longer than the cap can be enumerated.
Cap == 2

-----------------------------------------------------------------------------
(* Python's conversions between numbers and text *)

DigitChars == <<"0", "1", "2", "3", "4", "5", "6", "7", "8", "9">>

IsDigit(c) == \E i \in 1..10 : DigitChars[i] = c

DigitVal(c) == (CHOOSE i \in 1..10 : DigitChars[i] = c) - 1

AllDigits(s) == \A i \in 1..Len(s) : IsDigit(s[i])

RECURSIVE NatStr(_)
NatStr(n) ==
    IF n < 10 THEN <<DigitChars[n + 1]>>
    ELSE NatStr(n \div 10) \o <<DigitChars[(n % 10) + 1]>>

\* str(n) of an int, as csv.writer writes an int field
IntStr(n) == IF n < 0 THEN <<"-">> \o NatStr(-n) ELSE NatStr(n)

RECURSIVE DigitsVal(_)
DigitsVal(s) ==
    IF s = <<>> THEN 0
    ELSE 10 * DigitsVal(SubSeq(s, 1, Len(s) - 1)) + DigitVal(s[Len(s)])

RECURSIVE Pow10(_)
Pow10(k) == IF k = 0 THEN 1 ELSE 10 * Pow10(k - 1)

RECURSIVE Strip(_)
\* str.strip() as int() and float() apply it to their argument
Strip(s) ==
    IF s = <<>> THEN s
    ELSE IF s[1] = " " THEN Strip(Tail(s))
    ELSE IF s[Len(s)] = " " THEN Strip(SubSeq(s, 1, Len(s) - 1))
    ELSE s

HasSign(s) == s # <<>> /\ s[1] \in {"-", "+"}
Unsigned(s) == IF HasSign(s) THEN Tail(s) ELSE s
Negative(s) == s # <<>> /\ s[1] = "-"

ValueError == [exc |-> "ValueError"]

\* int(s): an optional sign and one or more digits, blanks around them
\* ignored; anything else raises ValueError.
ParseInt(s) ==
    LET t == Strip(s)
        d == Unsigned(t)
    IN  IF d # <<>> /\ AllDigits(d)
        THEN [exc |-> "none", v |-> IF Negative(t) THEN -DigitsVal(d) ELSE DigitsVal(d)]
        ELSE ValueError

DotAt(d) == CHOOSE i \in 1..Len(d) : d[i] = "."

\* float(s): nan, inf, or a decimal numeral, each with an optional sign.  A
\* number is held exactly, as num / den.
ParseFloat(s) ==
    LET t == Strip(s)
        d == Unsigned(t)
        sgn == IF Negative(t) THEN -1 ELSE 1
    IN  IF d = <<"n", "a", "n">> THEN [exc |-> "none", kind |-> "nan", num |-> 0, den |-> 1]
        ELSE IF d = <<"i", "n", "f">> THEN [exc |-> "none", kind |-> "inf", num |-> sgn, den |-> 1]
        ELSE IF d # <<>> /\ AllDigits(d)
             THEN [exc |-> "none", kind |-> "num", num |-> sgn * DigitsVal(d), den |-> 1]
        ELSE IF \E i \in 1..Len(d) : d[i] = "."
             THEN LET ip == SubSeq(d, 1, DotAt(d) - 1)
                      fp == SubSeq(d, DotAt(d) + 1, Len(d))
                  IN  IF AllDigits(ip) /\ AllDigits(fp) /\ Len(ip) + Len(fp) > 0
                      THEN [exc |-> "none", kind |-> "num",
                            num |-> sgn * (DigitsVal(ip) * Pow10(Len(fp)) + DigitsVal(fp)),
                            den |-> Pow10(Len(fp))]
                      ELSE ValueError
        ELSE ValueError

\* repr(x) of a float of h hundredths, as csv.writer writes a float field:
\* the shortest decimal that reads back as x, always with a fractional part.
FloatStr(h) ==
    LET a == IF h < 0 THEN -h ELSE h
        ip == a \div 100
        fr == a % 100
        frac == IF fr % 10 = 0 THEN <<DigitChars[(fr \div 10) + 1]>>
                ELSE <<DigitChars[(fr \div 10) + 1], DigitChars[(fr % 10) + 1]>>
    IN  (IF h < 0 THEN <<"-">> ELSE <<>>) \o NatStr(ip) \o <<".">> \o frac

-----------------------------------------------------------------------------
(* Configuration and the data directory *)

\* self.search_terms, in the order of the dict
search_terms ==
    << [symbol |-> "GOOGL_TRENDS_BITCOIN",        keyword |-> "bitcoin"],
       [symbol |-> "GOOGL_TRENDS_STOCK_MARKET",   keyword |-> "stock market"],
       [symbol |-> "GOOGL_TRENDS_RECESSION",      keyword |-> "recession"],
       [symbol |-> "GOOGL_TRENDS_INFLATION",      keyword |-> "inflation"],
       [symbol |-> "GOOGL_TRENDS_CRYPTOCURRENCY", keyword |-> "cryptocurrency"] >>

\* f"{symbol}.csv": a file name is its base and its extension
CsvName(symbol) == <<symbol, ".csv">>

\* an entry of data/ that is no .csv file
OtherName == <<"README", ".md">>

FileNames == {CsvName(search_terms[i].symbol) : i \in 1..Len(search_terms)} \cup {OtherName}

Absent == [kind |-> "absent", rows |-> <<>>]
Directory == [kind |-> "dir", rows |-> <<>>]
File(rows) == [kind |-> "file", rows |-> rows]

\* writer.writerow(['time', 'close']) / self.required_columns
required_columns == << <<"t", "i", "m", "e">>, <<"c", "l", "o", "s", "e">> >>

SecondsPerDay == 86400
DefaultMaxAgeDays == 7

-----------------------------------------------------------------------------
(* fetch_trends.py: the writer *)

\* sorted() keeps equal keys in their order of arrival: x goes after every
\* element whose timestamp is not greater.
InsertByTs(s, x) ==
    LET k == Cardinality({j \in 1..Len(s) : s[j].t <= x.t})
    IN  SubSeq(s, 1, k) \o <<x>> \o SubSeq(s, k + 1, Len(s))

RECURSIVE sorted_data(_)
\* sorted(data, key=lambda x: x[0])
sorted_data(data) ==
    IF data = <<>> THEN <<>>
    ELSE InsertByTs(sorted_data(SubSeq(data, 1, Len(data) - 1)), data[Len(data)])

\* the slice taken from the wrong end: sorted_data[:cap]
limited_data_head(data) ==
    LET s == sorted_data(data)
    IN  IF Len(s) > Cap THEN SubSeq(s, 1, Cap) ELSE s

\* sorted_data[-6000:] if len(sorted_data) > 6000 else sorted_data
limited_data(data) ==
    LET s == sorted_data(data)
    IN  IF Len(s) > Cap THEN SubSeq(s, Len(s) - Cap + 1, Len(s)) ELSE s

\* the two columns written in the wrong order
FormatRowSwapped(x) == <<FloatStr(x.v), IntStr(x.t)>>

\* writer.writerow([timestamp, value])
FormatRow(x) == <<IntStr(x.t), FloatStr(x.v)>>

\* everything a successful save_to_csv writes, in order
WrittenRows(data) ==
    <<required_columns>> \o [i \in 1..Len(limited_data(data)) |-> FormatRow(limited_data(data)[i])]

\* What the operating system does to one save_to_csv call: nothing fails,
\* makedirs fails, open fails, or a write fails after k rows reached the file.
IoOutcomes(data) ==
    {[fail |-> f, k |-> 0] : f \in {"none", "makedirs", "open"}}
        \cup {[fail |-> "write", k |-> k] : k \in 0..Len(WrittenRows(data)) - 1}

\* save_to_csv(data, filename) on the directory entry st under the outcome
\* io: the return value, the entry afterwards and whether data/ exists.
save_to_csv(st, exists, data, io) ==
    IF io.fail = "makedirs"
    THEN [ret |-> FALSE, file |-> st, dir |-> exists]
    ELSE IF io.fail = "open" \/ st.kind = "dir"
    THEN [ret |-> FALSE, file |-> st, dir |-> TRUE]
    ELSE IF io.fail = "write"
    THEN [ret |-> FALSE, file |-> File(SubSeq(WrittenRows(data), 1, io.k)), dir |-> TRUE]
    ELSE [ret |-> TRUE, file |-> File(WrittenRows(data)), dir |-> TRUE]

-----------------------------------------------------------------------------
(* validate_data.py: the validator *)

Err(msg, row, detail) == [msg |-> msg, row |-> row, detail |-> detail]

RECURSIVE JoinFields(_)
JoinFields(row) ==
    IF row = <<>> THEN <<>>
    ELSE IF Len(row) = 1 THEN row[1]
    ELSE row[1] \o <<",">> \o JoinFields(Tail(row))

\* open(filepath, 'r')
OpenRead(st) ==
    IF st.kind = "absent" THEN "FileNotFoundError"
    ELSE IF st.kind = "dir" THEN "IsADirectoryError"
    ELSE "none"

\* close_value < 0 or close_value > 100; every comparison with nan is false
OutOfRange(cv) ==
    IF cv.kind = "nan" THEN FALSE
    ELSE IF cv.kind = "inf" THEN TRUE
    ELSE cv.num < 0 \/ cv.num > 100 * cv.den

TimestampErrors(row, i, prev) ==
    LET ts == ParseInt(row[1])
    IN  IF ts.exc # "none" THEN <<Err("Invalid timestamp", i, row[1])>>
        ELSE IF ts.v <= prev THEN <<Err("Timestamps must be in ascending order", i, <<>>)>>
        ELSE <<>>

CloseErrors(row, i) ==
    LET cv == ParseFloat(row[2])
    IN  IF cv.exc # "none" THEN <<Err("Invalid close value", i, row[2])>>
        ELSE IF OutOfRange(cv) THEN <<Err("Close value outside expected range (0-100)", i, row[2])>>
        ELSE <<>>

RECURSIVE RowErrors(_, _, _)
\* the loop over the data rows: row i of the file is reported as "Row i"
RowErrors(rows, i, prev_timestamp) ==
    IF i > Len(rows) THEN <<>>
    ELSE LET row == rows[i]
         IN  IF Len(row) # 2
             THEN <<Err("Expected 2 columns", i, IntStr(Len(row)))>>
                      \o RowErrors(rows, i + 1, prev_timestamp)
             ELSE TimestampErrors(row, i, prev_timestamp) \o CloseErrors(row, i)
                      \o RowErrors(rows, i + 1,
                                   IF ParseInt(row[1]).exc = "none" THEN ParseInt(row[1]).v
                                   ELSE prev_timestamp)

\* self.max_data_points
max_data_points == Cap

\* the try block of validate_csv_structure: the exception that leaves it,
\* whether it returned from inside, and the errors collected
StructureBody(st) ==
    IF OpenRead(st) # "none" THEN [exc |-> OpenRead(st), early |-> FALSE, errors |-> <<>>]
    ELSE IF st.rows = <<>> \/ st.rows[1] = <<>>
    THEN [exc |-> "none", early |-> TRUE, errors |-> <<Err("File is empty", 0, <<>>)>>]
    ELSE LET row_count == Len(st.rows) - 1
             errors ==
                 (IF st.rows[1] # required_columns
                  THEN <<Err("Invalid header", 1, JoinFields(st.rows[1]))>> ELSE <<>>)
                 \o RowErrors(st.rows, 2, 0)
                 \o (IF row_count > max_data_points
                     THEN <<Err("Too many data points", 0, IntStr(row_count))>> ELSE <<>>)
                 \o (IF row_count = 0 THEN <<Err("No data rows found", 0, <<>>)>> ELSE <<>>)
         IN  [exc |-> "none", early |-> FALSE, errors |-> errors]

\* the except clauses of validate_csv_structure
StructureCaught(exc) == TRUE

\* validate_csv_structure(filepath): what it raises, or the pair it returns
validate_csv_structure(st) ==
    LET b == StructureBody(st)
        errors == IF b.exc = "none" THEN b.errors
                  ELSE IF b.exc = "FileNotFoundError"
                  THEN b.errors \o <<Err("File not found", 0, <<>>)>>
                  ELSE b.errors \o <<Err("Error reading file", 0, <<b.exc>>)>>
    IN  IF b.exc # "none" /\ b.exc # "FileNotFoundError" /\ ~StructureCaught(b.exc)
        THEN [raised |-> b.exc, flag |-> FALSE, list |-> <<>>]
        ELSE IF b.early THEN [raised |-> "none", flag |-> FALSE, list |-> errors]
        ELSE [raised |-> "none", flag |-> Len(errors) = 0, list |-> errors]

\* whole days rounded up instead of down
age_days_up(clock, latest_timestamp) ==
    (clock - latest_timestamp + SecondsPerDay - 1) \div SecondsPerDay

\* the age in seconds instead of whole days
age_days_seconds(clock, latest_timestamp) == clock - latest_timestamp

\* (now - latest_date).days: whole days, rounded down
age_days(clock, latest_timestamp) == (clock - latest_timestamp) \div SecondsPerDay

\* the try block of validate_data_freshness
FreshnessBody(st, clock, max_age_days) ==
    IF OpenRead(st) # "none" THEN [exc |-> OpenRead(st), flag |-> FALSE, warnings |-> <<>>]
    ELSE IF st.rows = <<>> THEN [exc |-> "StopIteration", flag |-> FALSE, warnings |-> <<>>]
    ELSE LET rows == Tail(st.rows)
         IN  IF rows = <<>>
             THEN [exc |-> "none", flag |-> FALSE,
                   warnings |-> <<Err("No data to check freshness", 0, <<>>)>>]
             ELSE LET latest_row == rows[Len(rows)]
                  IN  IF latest_row = <<>>
                      THEN [exc |-> "IndexError", flag |-> FALSE, warnings |-> <<>>]
                      ELSE IF ParseInt(latest_row[1]).exc # "none"
                      THEN [exc |-> "ValueError", flag |-> FALSE, warnings |-> <<>>]
                      ELSE LET age == age_days(clock, ParseInt(latest_row[1]).v)
                           IN  IF age > max_age_days
                               THEN [exc |-> "none", flag |-> FALSE,
                                     warnings |-> <<Err("Data is days old", 0, IntStr(age))>>]
                               ELSE [exc |-> "none", flag |-> TRUE, warnings |-> <<>>]

\* an except clause for ValueError alone
FreshnessCaughtValueError(exc) == exc = "ValueError"

\* the except clause of validate_data_freshness
FreshnessCaught(exc) == TRUE

\* validate_data_freshness(filepath, max_age_days)
validate_data_freshness(st, clock, max_age_days) ==
    LET b == FreshnessBody(st, clock, max_age_days)
    IN  IF b.exc = "none" THEN [raised |-> "none", flag |-> b.flag, list |-> b.warnings]
        ELSE IF FreshnessCaught(b.exc)
        THEN [raised |-> "none", flag |-> FALSE,
              list |-> <<Err("Error checking data freshness", 0, <<b.exc>>)>>]
        ELSE [raised |-> b.exc, flag |-> FALSE, list |-> <<>>]

-----------------------------------------------------------------------------
(* The operations as actions *)

\* the file the single-file specifications work on
TheFile == CsvName(search_terms[1].symbol)

\* the first clock reading at which a timestamp of 0 is 8 days old
StaleAfter == (DefaultMaxAgeDays + 1) * SecondsPerDay
Clocks == {1, StaleAfter, StaleAfter + 1}

MaxAgeChoices == {0, DefaultMaxAgeDays}

SampleTimes == {0, 1, 2}
SampleValues == {10000, 10001}
Samples == [t : SampleTimes, v : SampleValues]
MaxLen == Cap + 1
SampleLists == UNION {[1..n -> Samples] : n \in 0..MaxLen}

\* a file an earlier run wrote
OldFile == File(WrittenRows([i \in 1..Cap |-> [t |-> 6 + i, v |-> 550]]))

AllAbsent == [f \in FileNames |-> Absent]

NoCall == [called |-> FALSE, filename |-> TheFile, ret |-> FALSE, before |-> Absent]
NoResult == [done |-> FALSE, raised |-> "none", flag |-> FALSE, list |-> <<>>,
             at |-> 0, max_age |-> 0]

IdleFetcher ==
    [pc |-> "idle", pytrends |-> "unset", has_terms |-> FALSE, terms |-> <<>>, i |-> 1,
     results |-> <<>>, exc |-> "none", before |-> AllAbsent, fetched |-> <<>>,
     saves |-> {}]
IdleValidator ==
    [pc |-> "idle", run |-> 0, dir_seen |-> FALSE, csv_files |-> <<>>, i |-> 1,
     is_valid |-> FALSE, errors |-> <<>>, seen |-> Absent, results |-> <<>>,
     exit |-> -1, prev |-> <<>>, touched |-> {}]

\* a caller hands `input` to save_to_csv; the operating system picks io
SaveToCsv ==
    \E io \in IoOutcomes(input) :
        LET r == save_to_csv(fs[TheFile], dirExists, input, io)
        IN  /\ fs' = [fs EXCEPT ![TheFile] = r.file]
            /\ dirExists' = r.dir
            /\ saved' = [called |-> TRUE, filename |-> TheFile, ret |-> r.ret,
                         before |-> fs[TheFile]]
            /\ sres' = NoResult
            /\ fres' = NoResult
            /\ UNCHANGED <<now, input, fetcher, validator>>

\* a caller runs validate_csv_structure on the file
CallStructure ==
    LET r == validate_csv_structure(fs[TheFile])
    IN  /\ sres' = [done |-> TRUE, raised |-> r.raised, flag |-> r.flag, list |-> r.list,
                    at |-> now, max_age |-> 0]
        /\ UNCHANGED <<dirExists, fs, now, input, saved, fres, fetcher, validator>>

\* a caller runs validate_data_freshness on the file
CallFreshness ==
    \E m \in MaxAgeChoices :
        LET r == validate_data_freshness(fs[TheFile], now, m)
        IN  /\ fres' = [done |-> TRUE, raised |-> r.raised, flag |-> r.flag, list |-> r.list,
                        at |-> now, max_age |-> m]
            /\ UNCHANGED <<dirExists, fs, now, input, saved, sres, fetcher, validator>>

\* time passes
Tick ==
    /\ \E c \in Clocks : c > now /\ now' = c
    /\ UNCHANGED <<dirExists, fs, input, saved, sres, fres, fetcher, validator>>

\* save_to_csv on any sample list and any earlier state of the file,
\* followed by the two validations of what it wrote
InitSave ==
    /\ input \in SampleLists
    /\ \E st \in {Absent, Directory, OldFile} : fs = [AllAbsent EXCEPT ![TheFile] = st]
    /\ dirExists \in BOOLEAN
    /\ dirExists \/ fs = AllAbsent
    /\ now \in {StaleAfter, StaleAfter + 1}
    /\ saved = NoCall
    /\ sres = NoResult
    /\ fres = NoResult
    /\ fetcher = IdleFetcher
    /\ validator = IdleValidator

NextSave ==
    \/ SaveToCsv
    \/ (saved.ret /\ CallStructure)
    \/ (saved.ret /\ CallFreshness)

SpecSave == InitSave /\ [][NextSave]_vars

-----------------------------------------------------------------------------
(* Claims about save_to_csv *)

DataRows(st) == Tail(st.rows)
RowTime(row) == ParseInt(row[1]).v
Min(a, b) == IF a < b THEN a ELSE b
Count(seq, x) == Cardinality({i \in 1..Len(seq) : seq[i] = x})

SaveSucceeded == saved.called /\ saved.ret

\* C1: after a successful save_to_csv the data rows of the file are strictly
\* ascending by timestamp, for every input list, lists with two samples of
\* the same timestamp included.
C1_StrictlyAscending ==
    SaveSucceeded =>
        LET rows == DataRows(fs[saved.filename])
        IN  \A i \in 2..Len(rows) : RowTime(rows[i]) > RowTime(rows[i - 1])

\* the samples of `data` at the positions K are the rows `rows`, each as often
RowsAreSamples(rows, data, K) ==
    /\ Len(rows) = Cardinality(K)
    /\ \A i \in 1..Len(rows) :
           Count(rows, rows[i]) = Cardinality({k \in K : FormatRow(data[k]) = rows[i]})

\* C2: after a successful save_to_csv, whatever the file held before, the
\* file is the header row followed by exactly min(len(data), cap) data rows,
\* which are the samples of data with the highest timestamps; nothing of the
\* previous contents survives.
C2_CappedReplacement ==
    SaveSucceeded =>
        LET st == fs[saved.filename]
        IN  /\ st.kind = "file"
            /\ st.rows # <<>>
            /\ st.rows[1] = required_columns
            /\ Len(DataRows(st)) = Min(Len(input), Cap)
            /\ \E K \in SUBSET (1..Len(input)) :
                   /\ RowsAreSamples(DataRows(st), input, K)
                   /\ \A k \in K : \A j \in (1..Len(input)) \ K : input[j].t <= input[k].t

DistinctTimes(data) ==
    \A i, j \in 1..Len(data) : i # j => data[i].t # data[j].t

C2_Witness ==
    /\ SaveSucceeded
    /\ Len(input) > Cap
    /\ DistinctTimes(input)
    /\ input[1].t > input[2].t
    /\ saved.before = OldFile

Newest(data) == CHOOSE t \in {data[i].t : i \in 1..Len(data)} :
                    \A i \in 1..Len(data) : data[i].t <= t

\* a well-formed sample sequence, its newest sample read at the clock c
WellFormed(data, c) ==
    /\ data # <<>>
    /\ \A i \in 1..Len(data) : data[i].v >= 0 /\ data[i].v <= 10000
    /\ DistinctTimes(data)
    /\ Len(data) <= Cap
    /\ age_days(c, Newest(data)) <= DefaultMaxAgeDays

Validated ==
    /\ SaveSucceeded
    /\ sres.done
    /\ fres.done
    /\ fres.max_age = DefaultMaxAgeDays

CleanReport ==
    /\ sres.raised = "none" /\ sres.flag /\ sres.list = <<>>
    /\ fres.raised = "none" /\ fres.flag /\ fres.list = <<>>

\* C3 as stated: writing any well-formed sample sequence and validating the
\* written file yields valid and fresh with no error and no warning.
C3_RoundTrip ==
    (Validated /\ WellFormed(input, fres.at)) => CleanReport

\* C3 as amended: the same for the well-formed sequences whose timestamps
\* are all strictly positive.
C3_RoundTripPositive ==
    (Validated /\ WellFormed(input, fres.at) /\ \A i \in 1..Len(input) : input[i].t > 0)
        => CleanReport

C3_Witness ==
    /\ Validated
    /\ WellFormed(input, fres.at)
    /\ Len(input) = Cap
    /\ input[1].t > input[2].t
    /\ input[2].t > 0

-----------------------------------------------------------------------------
(* The validator's two checks on any file *)

\* rows a file may hold after its first row
RowChoices ==
    { << <<"1">>, <<"1", "0", "0", ".", "0">> >>,        \* 1,100.0
      << <<"2">>, <<"0">> >>,                             \* 2,0
      << <<"0">>, <<"0">> >>,                             \* 0,0
      << <<"2">>, <<"1", "0", "0", ".", "0", "1">> >>,   \* 2,100.01
      << <<"1">>, <<"n", "a", "n">> >>,                   \* 1,nan
      << <<"x">>, <<"1">> >>,                             \* x,1
      << <<"1">> >>,                                      \* 1
      << >> }                                             \* a blank line

HeaderChoices == {required_columns, << <<"c", "l", "o", "s", "e">>, <<"t", "i", "m", "e">> >>}

FileChoices ==
    {Absent, Directory, File(<<>>)}
        \cup {File(<< <<>> >> \o body) : body \in [1..1 -> RowChoices]}
        \cup UNION {{File(<<h>> \o body) : body \in [1..n -> RowChoices]} :
                        h \in HeaderChoices, n \in 0..MaxLen}

InitFile ==
    /\ \E st \in FileChoices : fs = [AllAbsent EXCEPT ![TheFile] = st]
    /\ dirExists \in BOOLEAN
    /\ dirExists \/ fs = AllAbsent
    /\ now \in Clocks
    /\ input = <<>>
    /\ saved = NoCall
    /\ sres = NoResult
    /\ fres = NoResult
    /\ fetcher = IdleFetcher
    /\ validator = IdleValidator

NextFile ==
    \/ CallStructure
    \/ CallFreshness

SpecFile == InitFile /\ [][NextFile]_vars

\* the field is the text of an integer
IsIntText(f) == ParseInt(f).exc = "none"

\* the field is the text of a number between 0 and 100
IsScoreText(f) ==
    /\ ParseFloat(f).exc = "none"
    /\ ParseFloat(f).kind = "num"
    /\ 0 <= ParseFloat(f).num
    /\ ParseFloat(f).num <= 100 * ParseFloat(f).den

\* the conditions of C7 on a directory entry
Conforms(st) ==
    /\ st.kind = "file"
    /\ st.rows # <<>>
    /\ st.rows[1] = required_columns
    /\ Len(st.rows) - 1 >= 1
    /\ Len(st.rows) - 1 <= Cap
    /\ \A i \in 2..Len(st.rows) :
           /\ Len(st.rows[i]) = 2
           /\ IsIntText(st.rows[i][1])
           /\ IsScoreText(st.rows[i][2])
    /\ \A i \in 2..Len(st.rows) :
           RowTime(st.rows[i]) > (IF i = 2 THEN 0 ELSE RowTime(st.rows[i - 1]))

\* C7: validate_csv_structure returns valid = true exactly when the header is
\* time,close, there are between 1 and cap data rows, every row has two
\* fields, every timestamp is an integer greater than the one before (0
\* before the first) and every value is a number within [0, 100]; and the
\* flag is true exactly when the error list is empty.
C7_ValidIffConforms ==
    sres.done =>
        /\ sres.raised = "none"
        /\ sres.flag <=> Conforms(fs[TheFile])
        /\ sres.flag <=> (sres.list = <<>>)

HasNaN(st) ==
    \E i \in 2..Len(st.rows) :
        /\ Len(st.rows[i]) = 2
        /\ ParseFloat(st.rows[i][2]).exc = "none"
        /\ ParseFloat(st.rows[i][2]).kind = "nan"

\* C7 holds of every file no value of which reads as nan
C7_ValidIffConformsWithoutNaN ==
    (sres.done /\ ~HasNaN(fs[TheFile])) =>
        /\ sres.raised = "none"
        /\ sres.flag <=> Conforms(fs[TheFile])
        /\ sres.flag <=> (sres.list = <<>>)

\* the file has a data row, the last one starts with an integer, and fewer
\* than m + 1 whole days lie between that timestamp and the clock c
LastRowYoung(st, c, m) ==
    /\ st.kind = "file"
    /\ Len(st.rows) >= 2
    /\ st.rows[Len(st.rows)] # <<>>
    /\ IsIntText(st.rows[Len(st.rows)][1])
    /\ c - RowTime(st.rows[Len(st.rows)]) < (m + 1) * SecondsPerDay

HeaderOnly(st) == st.kind = "file" /\ Len(st.rows) = 1 /\ st.rows[1] # <<>>

\* C8: validate_data_freshness returns fresh = true exactly when the file has
\* a data row and the age of the last row's timestamp in whole days is at
\* most max_age_days, whatever the structure check says; a header-only file
\* is not fresh, with a warning, and invalid with "No data rows found".
C8_FreshIffYoung ==
    /\ fres.done =>
           /\ fres.raised = "none"
           /\ fres.flag <=> LastRowYoung(fs[TheFile], fres.at, fres.max_age)
    /\ (fres.done /\ HeaderOnly(fs[TheFile])) =>
           /\ ~fres.flag
           /\ Len(fres.list) = 1
           /\ fres.list[1].msg = "No data to check freshness"
    /\ (sres.done /\ HeaderOnly(fs[TheFile])) =>
           /\ ~sres.flag
           /\ \E i \in 1..Len(sres.list) : sres.list[i].msg = "No data rows found"

\* a structurally invalid file that is fresh
C8_Witness ==
    /\ sres.done /\ fres.done
    /\ fres.max_age = DefaultMaxAgeDays
    /\ ~sres.flag
    /\ fres.flag

\* a structurally valid file that is stale
C8_WitnessStale ==
    /\ sres.done /\ fres.done
    /\ fres.max_age = DefaultMaxAgeDays
    /\ sres.flag
    /\ ~fres.flag

-----------------------------------------------------------------------------
(* validate_data.py: validate_all_files and main *)

CsvNames == {f \in FileNames : f[2] = ".csv"}

\* os.listdir gives the entries in no particular order
Orderings(S) ==
    {q \in [1..Cardinality(S) -> S] : \A i, j \in 1..Cardinality(S) : i # j => q[i] # q[j]}

\* is_valid, errors = self.validate_csv_structure(filepath)
StructureOf(st) == validate_csv_structure(st)

\* is_fresh, warnings = self.validate_data_freshness(filepath)
FreshnessOf(st, clock) == validate_data_freshness(st, clock, DefaultMaxAgeDays)

\* the exit code with stale files counted as failures
ExitCodeFresh(results) ==
    IF results = <<>> THEN 1
    ELSE IF \A i \in 1..Len(results) : results[i].valid /\ results[i].fresh THEN 0
    ELSE 1

\* the exit code main gives the report
ExitCode(results) ==
    IF results = <<>> THEN 1
    ELSE IF \A i \in 1..Len(results) : results[i].valid THEN 0
    ELSE 1

\* main calls validate_all_files: the directory test and the listing
MainStart ==
    /\ validator.pc \in {"idle", "exited"}
    /\ validator.run < 2
    /\ \E q \in (IF dirExists
                 THEN Orderings({f \in CsvNames : fs[f].kind # "absent"})
                 ELSE {<<>>}) :
           validator' = [validator EXCEPT
               !.pc = IF q = <<>> THEN "returned" ELSE "structure",
               !.run = @ + 1,
               !.dir_seen = dirExists,
               !.csv_files = q,
               !.i = 1,
               !.results = <<>>,
               !.exit = -1,
               !.prev = validator.results]
    /\ UNCHANGED <<dirExists, fs, now, input, saved, sres, fres, fetcher>>

\* the structure check of the current file
ValidateStructure ==
    /\ validator.pc = "structure"
    /\ LET st == fs[validator.csv_files[validator.i]]
           r == StructureOf(st)
       IN  validator' =
               IF r.raised # "none" THEN [validator EXCEPT !.pc = "raised"]
               ELSE [validator EXCEPT !.pc = "freshness", !.is_valid = r.flag,
                                      !.errors = r.list, !.seen = st]
    /\ UNCHANGED <<dirExists, fs, now, input, saved, sres, fres, fetcher>>

\* the freshness check of the current file and its entry in the report
ValidateFreshness ==
    /\ validator.pc = "freshness"
    /\ LET name == validator.csv_files[validator.i]
           r == FreshnessOf(fs[name], now)
           entry == [name |-> name, valid |-> validator.is_valid, fresh |-> r.flag,
                     errors |-> validator.errors, warnings |-> r.list,
                     seen |-> validator.seen, seen_later |-> fs[name], at |-> now]
       IN  validator' =
               IF r.raised # "none" THEN [validator EXCEPT !.pc = "raised"]
               ELSE [validator EXCEPT
                        !.pc = IF validator.i = Len(validator.csv_files)
                               THEN "returned" ELSE "structure",
                        !.i = @ + 1,
                        !.results = Append(@, entry)]
    /\ UNCHANGED <<dirExists, fs, now, input, saved, sres, fres, fetcher>>

\* main reads the report and exits
MainExit ==
    /\ validator.pc = "returned"
    /\ validator' = [validator EXCEPT !.pc = "exited", !.exit = ExitCode(validator.results)]
    /\ UNCHANGED <<dirExists, fs, now, input, saved, sres, fres, fetcher>>

\* a file is removed while the validator runs
Vanish ==
    /\ validator.pc \in {"structure", "freshness"}
    /\ \E f \in CsvNames :
           /\ fs[f].kind = "file"
           /\ fs' = [fs EXCEPT ![f] = Absent]
           /\ validator' = [validator EXCEPT !.touched = @ \cup {f}]
    /\ UNCHANGED <<dirExists, now, input, saved, sres, fres, fetcher>>

FileA == CsvName(search_terms[1].symbol)
FileB == CsvName(search_terms[2].symbol)

GoodRow == << <<"1">>, <<"1", "0", "0", ".", "0">> >>
HighRow == << <<"2">>, <<"1", "0", "0", ".", "0", "1">> >>
BadTimeRow == << <<"x">>, <<"1">> >>

InitValidator ==
    /\ dirExists \in BOOLEAN
    /\ \E a \in {Absent, Directory, File(<<>>), File(<<required_columns>>),
                 File(<<required_columns, GoodRow>>), File(<<required_columns, HighRow>>),
                 File(<<required_columns, GoodRow, BadTimeRow>>)},
          b \in {Absent, File(<<required_columns, GoodRow>>),
                 File(<<required_columns, <<>> >>)},
          o \in {Absent, File(<< <<>> >>)} :
           fs = [AllAbsent EXCEPT ![FileA] = a, ![FileB] = b, ![OtherName] = o]
    /\ dirExists \/ fs = AllAbsent
    /\ now \in Clocks
    /\ input = <<>>
    /\ saved = NoCall
    /\ sres = NoResult
    /\ fres = NoResult
    /\ fetcher = IdleFetcher
    /\ validator = IdleValidator

NextValidator ==
    \/ MainStart
    \/ ValidateStructure
    \/ ValidateFreshness
    \/ MainExit
    \/ Vanish
    \/ Tick

SpecValidator == InitValidator /\ [][NextValidator]_vars

-----------------------------------------------------------------------------
(* Claims about the validator's run *)

Report == validator.results
Exited == validator.pc = "exited"
Returned == validator.pc \in {"returned", "exited"}

\* C4: main exits with code 0 exactly when the report is non-empty and every
\* file in it is structurally valid, and with code 1 when the directory is
\* missing, holds no .csv file or a file is invalid; the freshness flags
\* never change the exit code.
C4_ExitCode ==
    Exited =>
        /\ validator.exit \in {0, 1}
        /\ validator.exit = 0 <=>
               (Report # <<>> /\ \A i \in 1..Len(Report) : Report[i].valid)
        /\ (~validator.dir_seen \/ validator.csv_files = <<>>) => validator.exit = 1
        /\ (\E i \in 1..Len(Report) : ~Report[i].valid) => validator.exit = 1
        /\ (\E i \in 1..Len(Report) : Report[i].seen.kind # "file") => validator.exit = 1

\* every file valid, one of them stale, exit code 0
C4_Witness ==
    /\ Exited
    /\ validator.exit = 0
    /\ Len(Report) = 2
    /\ \E i \in 1..Len(Report) : ~Report[i].fresh

\* the entries of the two runs for a file that nothing touched in between
SamePair(e1, e2) == e1.name = e2.name /\ e2.name \notin validator.touched

TwoRuns == validator.run = 2 /\ Returned

\* C9 as stated: two validations of the same unmodified file give the same
\* valid flag, fresh flag, error list and warning list, at any two moments.
C9_Idempotent ==
    TwoRuns =>
        \A i \in 1..Len(validator.prev), j \in 1..Len(Report) :
            SamePair(validator.prev[i], Report[j]) =>
                /\ validator.prev[i].valid = Report[j].valid
                /\ validator.prev[i].errors = Report[j].errors
                /\ validator.prev[i].fresh = Report[j].fresh
                /\ validator.prev[i].warnings = Report[j].warnings

\* the last data row of the file has a timestamp, and it is as many whole
\* days old at the clock c1 as at the clock c2
SameAge(st, c1, c2) ==
    (st.kind = "file" /\ Len(st.rows) >= 2 /\ st.rows[Len(st.rows)] # <<>>
        /\ IsIntText(st.rows[Len(st.rows)][1]))
    => \E d \in -1..(DefaultMaxAgeDays + 2) :
           /\ d * SecondsPerDay <= c1 - RowTime(st.rows[Len(st.rows)])
           /\ c1 - RowTime(st.rows[Len(st.rows)]) < (d + 1) * SecondsPerDay
           /\ d * SecondsPerDay <= c2 - RowTime(st.rows[Len(st.rows)])
           /\ c2 - RowTime(st.rows[Len(st.rows)]) < (d + 1) * SecondsPerDay

\* C9 as amended: the valid flag and the error list are the same at any two
\* moments; the fresh flag and the warning list are the same whenever the
\* file's last timestamp is as many whole days old at both moments.
C9_IdempotentSameAge ==
    TwoRuns =>
        \A i \in 1..Len(validator.prev), j \in 1..Len(Report) :
            SamePair(validator.prev[i], Report[j]) =>
                /\ validator.prev[i].valid = Report[j].valid
                /\ validator.prev[i].errors = Report[j].errors
                /\ SameAge(Report[j].seen, validator.prev[i].at, Report[j].at) =>
                       /\ validator.prev[i].fresh = Report[j].fresh
                       /\ validator.prev[i].warnings = Report[j].warnings

\* a file validated at two different clock readings of the same day of age
C9_Witness ==
    /\ TwoRuns
    /\ \E i \in 1..Len(validator.prev), j \in 1..Len(Report) :
           /\ SamePair(validator.prev[i], Report[j])
           /\ validator.prev[i].at # Report[j].at
           /\ Report[j].seen.kind = "file"
           /\ Len(Report[j].seen.rows) = 2
           /\ SameAge(Report[j].seen, validator.prev[i].at, Report[j].at)
           /\ Report[j].fresh

\* C10: the validator always completes and reports: neither check raises on
\* any file state; a missing file is invalid with exactly one error, file not
\* found; validate_all_files returns exactly one entry, with both results,
\* for each .csv file it enumerated, also when a file has disappeared since.
C10_AlwaysReports ==
    /\ validator.pc # "raised"
    /\ Returned =>
           /\ Len(Report) = Len(validator.csv_files)
           /\ \A i \in 1..Len(Report) :
                  /\ Report[i].name = validator.csv_files[i]
                  /\ Report[i].valid \in BOOLEAN
                  /\ Report[i].fresh \in BOOLEAN
                  /\ Report[i].seen.kind = "absent" =>
                         /\ ~Report[i].valid
                         /\ Len(Report[i].errors) = 1
                         /\ Report[i].errors[1].msg = "File not found"
                  /\ Report[i].seen_later.kind = "absent" =>
                         /\ ~Report[i].fresh
                         /\ Len(Report[i].warnings) = 1

\* two files enumerated, one of them gone before it was read
C10_Witness ==
    /\ Returned
    /\ Len(Report) = 2
    /\ \E i \in 1..Len(Report) : Report[i].seen.kind = "absent"
    /\ \E i \in 1..Len(Report) : Report[i].seen.kind = "file" /\ Report[i].seen_later.kind = "absent"

-----------------------------------------------------------------------------
(* fetch_trends.py: the fetcher *)

\* limited_terms keeps this many of the configured series
TermLimit == 3

\* dict(list(self.search_terms.items())[:3])
limited_terms == SubSeq(search_terms, 1, TermLimit)

\* what the upstream answers to one query: the call raises, the table is
\* empty, or the table holds samples
UpstreamOutcomes ==
    {[kind |-> "raise", data |-> <<>>], [kind |-> "empty", data |-> <<>>],
     [kind |-> "table", data |-> <<[t |-> 1, v |-> 10000]>>],
     [kind |-> "table", data |-> [i \in 1..MaxLen |-> [t |-> MaxLen + 1 - i, v |-> 5000]]]}

\* fetch_trends_data(keyword): the samples it returns
fetch_trends_data(pytrends, up) ==
    IF pytrends = "None" THEN <<>>
    ELSE IF up.kind = "raise" THEN <<>>
    ELSE IF up.kind = "empty" THEN <<>>
    ELSE up.data

\* GoogleTrendsFetcher(): TrendReq(...) returns a client or raises; the
\* series are configured after it, inside the same try block
Construct ==
    /\ fetcher.pc = "idle"
    /\ \E ok \in BOOLEAN :
           fetcher' = [fetcher EXCEPT
               !.pc = "ready",
               !.pytrends = IF ok THEN "TrendReq" ELSE "None",
               !.has_terms = ok]
    /\ UNCHANGED <<dirExists, fs, now, input, saved, sres, fres, validator>>

\* fetch_all_trends up to its loop: reading self.search_terms raises
\* AttributeError when the constructor never set it
FetchAllStart ==
    /\ fetcher.pc = "ready"
    /\ fetcher' =
           IF fetcher.has_terms
           THEN [fetcher EXCEPT !.pc = "loop", !.terms = limited_terms, !.i = 1,
                                !.results = <<>>, !.before = fs, !.fetched = <<>>,
                                !.saves = {}]
           ELSE [fetcher EXCEPT !.pc = "raised", !.exc = "AttributeError",
                                !.results = <<>>, !.before = fs]
    /\ UNCHANGED <<dirExists, fs, now, input, saved, sres, fres, validator>>

\* one turn of the loop with data: save_to_csv and its result recorded
FetchAndSave ==
    /\ fetcher.pc = "loop"
    /\ \E up \in UpstreamOutcomes :
           LET symbol == fetcher.terms[fetcher.i].symbol
               data == fetch_trends_data(fetcher.pytrends, up)
           IN  /\ data # <<>>
               /\ \E io \in IoOutcomes(data) :
                      LET r == save_to_csv(fs[CsvName(symbol)], dirExists, data, io)
                      IN  /\ fs' = [fs EXCEPT ![CsvName(symbol)] = r.file]
                          /\ dirExists' = r.dir
                          /\ fetcher' = [fetcher EXCEPT
                                 !.pc = IF fetcher.i = Len(fetcher.terms) THEN "done" ELSE "loop",
                                 !.i = @ + 1,
                                 !.results = Append(@, [symbol |-> symbol, success |-> r.ret]),
                                 !.fetched = Append(@, "data"),
                                 !.saves = @ \cup {symbol}]
    /\ UNCHANGED <<now, input, saved, sres, fres, validator>>

\* one turn of the loop without data: "Using existing data"
FetchNothing ==
    /\ fetcher.pc = "loop"
    /\ \E up \in UpstreamOutcomes :
           LET symbol == fetcher.terms[fetcher.i].symbol
               data == fetch_trends_data(fetcher.pytrends, up)
           IN  /\ data = <<>>
               /\ fetcher' = [fetcher EXCEPT
                      !.pc = IF fetcher.i = Len(fetcher.terms) THEN "done" ELSE "loop",
                      !.i = @ + 1,
                      !.results = Append(@, [symbol |-> symbol, success |-> TRUE]),
                      !.fetched = Append(@, "empty")]
    /\ UNCHANGED <<dirExists, fs, now, input, saved, sres, fres, validator>>

InitFetch ==
    /\ dirExists \in BOOLEAN
    /\ \E prior \in [{CsvName(limited_terms[k].symbol) : k \in 1..TermLimit}
                         -> {Absent, OldFile}] :
           fs = [f \in FileNames |-> IF f \in DOMAIN prior THEN prior[f] ELSE Absent]
    /\ dirExists \/ fs = AllAbsent
    /\ now = StaleAfter
    /\ input = <<>>
    /\ saved = NoCall
    /\ sres = NoResult
    /\ fres = NoResult
    /\ fetcher = IdleFetcher
    /\ validator = IdleValidator

NextFetch ==
    \/ Construct
    \/ FetchAllStart
    \/ FetchAndSave
    \/ FetchNothing

SpecFetch == InitFetch /\ [][NextFetch]_vars

RunOver == fetcher.pc \in {"done", "raised"}

\* C5: whatever the upstream and the file system do for each series, and
\* also when the client failed to initialise, fetch_all_trends never raises:
\* it attempts the first three configured series in order, one failure never
\* stops the later ones, and it returns one boolean entry per series.
C5_NeverRaises ==
    /\ fetcher.pc # "raised"
    /\ \A k \in 1..Len(fetcher.results) :
           /\ fetcher.results[k].symbol = search_terms[k].symbol
           /\ fetcher.results[k].success \in BOOLEAN
    /\ fetcher.pc = "done" => Len(fetcher.results) = TermLimit

\* C5 holds of every run of a fetcher whose client initialised
C5_NeverRaisesInitialised ==
    fetcher.pytrends = "TrendReq" =>
        /\ fetcher.pc # "raised"
        /\ \A k \in 1..Len(fetcher.results) :
               /\ fetcher.results[k].symbol = search_terms[k].symbol
               /\ fetcher.results[k].success \in BOOLEAN
        /\ fetcher.pc = "done" => Len(fetcher.results) = TermLimit

\* the run got no data for the k-th series: its fetch came back empty, or
\* the client is uninitialised
NoData(k) ==
    \/ fetcher.pytrends = "None"
    \/ (k <= Len(fetcher.fetched) /\ fetcher.fetched[k] = "empty")

Retained(k) ==
    LET symbol == search_terms[k].symbol
    IN  /\ symbol \notin fetcher.saves
        /\ fs[CsvName(symbol)] = fetcher.before[CsvName(symbol)]
        /\ k <= Len(fetcher.results)
        /\ fetcher.results[k].symbol = symbol
        /\ fetcher.results[k].success

\* C6: in fetch_all_trends, a series whose fetch yields nothing (empty
\* table, failed call or uninitialised client) gets no save_to_csv call, its
\* file is as it was before the run, and it is recorded as True.
C6_EmptyFetchRetained ==
    RunOver => \A k \in 1..TermLimit : NoData(k) => Retained(k)

\* C6 holds of every run of a fetcher whose client initialised
C6_EmptyFetchRetainedInitialised ==
    (RunOver /\ fetcher.pytrends = "TrendReq") =>
        \A k \in 1..TermLimit : NoData(k) => Retained(k)

\* the k-th entry of the result mapping stands for a file of data/ that
\* holds the header and at least one data row
HasDataFile(k) ==
    LET st == fs[CsvName(fetcher.results[k].symbol)]
    IN  /\ dirExists
        /\ st.kind = "file"
        /\ Len(st.rows) >= 2
        /\ st.rows[1] = required_columns

\* C11: at the end of any fetch_all_trends run, from any state of the data
\* directory (an empty or absent one included), every series recorded as
\* True in the result mapping has its file <series>.csv in data/, holding at
\* least one data row.
C11_TrueMeansFile ==
    RunOver => \A k \in 1..Len(fetcher.results) :
                   fetcher.results[k].success => HasDataFile(k)

\* the rest of C11 holds: a True entry stands for a file with data whenever
\* the series was saved in this run or had a file before it
C11_TrueMeansFileSavedOrPrior ==
    RunOver => \A k \in 1..Len(fetcher.results) :
                   (/\ fetcher.results[k].success
                    /\ \/ fetcher.fetched[k] = "data"
                       \/ fetcher.before[CsvName(fetcher.results[k].symbol)].kind = "file")
                       => HasDataFile(k)

\* a finished run that records every series True and leaves no data/ at all
C11_TrueWithoutFile ==
    /\ fetcher.pc = "done"
    /\ ~dirExists
    /\ \A k \in 1..TermLimit :
           /\ fetcher.results[k].success
           /\ fs[CsvName(fetcher.results[k].symbol)] = Absent

====
